---- MODULE Spec2Model ----
(***************************************************************************)
(* Model of src/oppimistehtava2.ino: the ESP32 task-watchdog experiment.   *)
(* A record in RTC_NOINIT memory (gRtc) survives resets and drives a       *)
(* phase machine that measures the longest feed interval the task watchdog *)
(* tolerates.  Time is the value of millis(); it advances from one instant *)
(* at which loop() has something to do to the next such instant, which is  *)
(* what a loop() that polls millis() far more often than once per          *)
(* millisecond observes.  The console output is not modelled.              *)
(***************************************************************************)
EXTENDS Integers, FiniteSets, Sequences, TLC

(* ---------------- tuning knobs (oppimistehtava2.ino:6-16) -------------- *)
kWdtTimeoutSeconds == 5
kFeedIntervalMs    == 1000
kDisableWindowMs   == 30000
kMinFeedCount      == 6
kStretchStartMs    == 1000
kStretchHoldMs     == 8000
kCoarseStepMs      == 500
kFineStepMs        == 100
kRtcMagic          == "0xC0FFEE42"
kSetupDelayMs      == 250
kPhaseDelayMs      == 200
kResultIdleMs      == 1000

kWdtTimeoutMs == kWdtTimeoutSeconds * 1000

(* ---------------- enum class Phase (oppimistehtava2.ino:46-55) --------- *)
FeedWarmup    == 0
ResetTest1    == 1
ResetTest2    == 2
Disabled30s   == 3
FeedAfterOn   == 4
StretchCoarse == 5
StretchFine   == 6
Result        == 7

(* ---------------- bounds of the model ---------------------------------- *)
\* boots counted in gRtc.bootCount before the model stops resetting
MaxBoots    == 6
\* driver-call failures and non-watchdog resets injected in one behaviour
MaxFaults   == 2
\* largest millis() value of one boot
MaxUptimeMs == 120000

(* The uint32_t fields are modelled as naturals.  No value of the model    *)
(* comes near 2^32: millis() stays below MaxUptimeMs and an interval grows *)
(* by one step per kStretchHoldMs of uptime, so no addition or subtraction *)
(* of the program wraps within the bounds.                                 *)

(* esp_reset_reason_t values named by resetReasonToString *)
TASK_WDT == "TASK_WDT"
POWERON  == "POWERON"
OtherReasons ==
    {"POWERON", "EXT", "SW", "PANIC", "INT_WDT", "WDT", "DEEPSLEEP",
     "BROWNOUT", "SDIO", "UNKNOWN"}
ResetReasons == OtherReasons \cup {TASK_WDT}

VARIABLES
    gRtc,             \* RtcState in RTC_NOINIT memory
    gLastFeedMs,      \* millis() of the last due feed attempt
    gFeedCount,       \* successful feeds counted since the last counter reset
    intervalStartMs,  \* stretchStepLogic's static: start of the current hold
    done,             \* loop()'s static in the Result case
    windowStartMs,    \* runDisableWindow's local start
    now,              \* millis()
    wdtEnabled,       \* the task watchdog is initialised and watches loop()
    wdtLastFeedMs,    \* millis() at which the watchdog's countdown restarted
    resetReason,      \* esp_reset_reason()
    pc,               \* "boot" | "loop" | "hang" | "window"
    faults,           \* driver failures and non-watchdog resets so far
    lastHeldMs,       \* history: last stretch interval held for kStretchHoldMs
    wdtResetAtMs,     \* history: stretch interval in force at the last watchdog reset
    resultDisabledWdt, \* history: the Result case has switched the watchdog off
    bootsRun          \* history: runs of setup() since RTC memory last held no record

vars ==
    << gRtc, gLastFeedMs, gFeedCount, intervalStartMs, done, windowStartMs,
       now, wdtEnabled, wdtLastFeedMs, resetReason, pc, faults, lastHeldMs,
       wdtResetAtMs, resultDisabledWdt, bootsRun >>

ram == << gLastFeedMs, gFeedCount, intervalStartMs, done, windowStartMs >>
hist == << lastHeldMs, wdtResetAtMs, resultDisabledWdt, bootsRun >>

(* ---------------- struct RtcState -------------------------------------- *)
SearchFields ==
    {"coarseIntervalMs", "coarseLastGoodMs", "coarseFailMs",
     "fineIntervalMs", "fineLastGoodMs", "fineFailMs",
     "finalLastGoodMs", "finalFailMs"}

RtcFields == {"magic", "bootCount", "phase"} \cup SearchFields

\* what RTC_NOINIT memory may hold after power loss: nothing the program wrote
RtcGarbage ==
    { [f \in RtcFields |-> IF f = "magic" THEN m ELSE w] :
        m \in {"0x00000000", "0xFFFFFFFF"}, w \in {0, 2 ^ 30} }

Valid(r) == r.magic = kRtcMagic

SameSearch(r, s) == \A f \in SearchFields : r[f] = s[f]

(* ---------------- rtcInitIfNeeded -------------------------------------- *)
\* slip: the marker is not looked at, every boot starts a fresh record
rtcInitAlways(r) ==
    [magic            |-> kRtcMagic,
     bootCount        |-> 0,
     phase            |-> FeedWarmup,
     coarseIntervalMs |-> kStretchStartMs,
     coarseLastGoodMs |-> 0,
     coarseFailMs     |-> 0,
     fineIntervalMs   |-> 0,
     fineLastGoodMs   |-> 0,
     fineFailMs       |-> 0,
     finalLastGoodMs  |-> 0,
     finalFailMs      |-> 0]

\* slip: a fresh record starts with the boot count at 1
rtcInitCountsFromOne(r) ==
    IF r.magic # kRtcMagic
    THEN [magic            |-> kRtcMagic,
          bootCount        |-> 1,
          phase            |-> FeedWarmup,
          coarseIntervalMs |-> kStretchStartMs,
          coarseLastGoodMs |-> 0,
          coarseFailMs     |-> 0,
          fineIntervalMs   |-> 0,
          fineLastGoodMs   |-> 0,
          fineFailMs       |-> 0,
          finalLastGoodMs  |-> 0,
          finalFailMs      |-> 0]
    ELSE r

rtcInitIfNeeded(r) ==
    IF r.magic # kRtcMagic
    THEN [magic            |-> kRtcMagic,
          bootCount        |-> 0,
          phase            |-> FeedWarmup,
          coarseIntervalMs |-> kStretchStartMs,
          coarseLastGoodMs |-> 0,
          coarseFailMs     |-> 0,
          fineIntervalMs   |-> 0,
          fineLastGoodMs   |-> 0,
          fineFailMs       |-> 0,
          finalLastGoodMs  |-> 0,
          finalFailMs      |-> 0]
    ELSE r

(* ---------------- advancePhaseOnWdtReset ------------------------------- *)
\* slip: the fine search is seeded from the failing interval
CoarseHandoffSeedsFail(r) ==
    LET good == IF r.coarseIntervalMs > kCoarseStepMs
                THEN r.coarseIntervalMs - kCoarseStepMs
                ELSE 0
    IN  [r EXCEPT !.coarseFailMs     = r.coarseIntervalMs,
                  !.coarseLastGoodMs = good,
                  !.fineIntervalMs   = r.coarseIntervalMs,
                  !.fineLastGoodMs   = 0,
                  !.fineFailMs       = 0,
                  !.phase            = StretchFine]

CoarseHandoff(r) ==
    LET good == IF r.coarseIntervalMs > kCoarseStepMs
                THEN r.coarseIntervalMs - kCoarseStepMs
                ELSE 0
    IN  [r EXCEPT !.coarseFailMs     = r.coarseIntervalMs,
                  !.coarseLastGoodMs = good,
                  !.fineIntervalMs   = good,
                  !.fineLastGoodMs   = 0,
                  !.fineFailMs       = 0,
                  !.phase            = StretchFine]

\* slip: the last held interval is recorded as the failing one
FineHandoffBlamesHeld(r) ==
    LET good == IF r.fineIntervalMs > kFineStepMs
                THEN r.fineIntervalMs - kFineStepMs
                ELSE 0
    IN  [r EXCEPT !.fineFailMs      = good,
                  !.fineLastGoodMs  = good,
                  !.finalLastGoodMs = good,
                  !.finalFailMs     = good,
                  !.phase           = Result]

\* slip: the final pair is not copied
FineHandoffNoCopy(r) ==
    LET good == IF r.fineIntervalMs > kFineStepMs
                THEN r.fineIntervalMs - kFineStepMs
                ELSE 0
    IN  [r EXCEPT !.fineFailMs      = r.fineIntervalMs,
                  !.fineLastGoodMs  = good,
                  !.phase           = Result]

FineHandoff(r) ==
    LET good == IF r.fineIntervalMs > kFineStepMs
                THEN r.fineIntervalMs - kFineStepMs
                ELSE 0
    IN  [r EXCEPT !.fineFailMs      = r.fineIntervalMs,
                  !.fineLastGoodMs  = good,
                  !.finalLastGoodMs = good,
                  !.finalFailMs     = r.fineIntervalMs,
                  !.phase           = Result]

\* slip: every watchdog cause is taken for the task watchdog
IsAnyWdtReset(reason) == reason \in {"TASK_WDT", "INT_WDT", "WDT"}

IsWdtReset(reason) == reason = TASK_WDT

\* slip: a watchdog reset in any other phase moves on to the next phase
advanceEveryPhase(r, reason) ==
    IF ~IsWdtReset(reason) THEN r
    ELSE IF r.phase = StretchCoarse THEN CoarseHandoff(r)
    ELSE IF r.phase = StretchFine THEN FineHandoff(r)
    ELSE IF r.phase < Result THEN [r EXCEPT !.phase = r.phase + 1]
    ELSE r

\* slip: the phase word wraps around after Result
advanceWrapsAround(r, reason) ==
    IF ~IsWdtReset(reason) THEN r
    ELSE IF r.phase = ResetTest1 THEN [r EXCEPT !.phase = ResetTest2]
    ELSE IF r.phase = ResetTest2 THEN [r EXCEPT !.phase = Disabled30s]
    ELSE IF r.phase = StretchCoarse THEN CoarseHandoff(r)
    ELSE IF r.phase = StretchFine THEN FineHandoff(r)
    ELSE IF r.phase = Result THEN [r EXCEPT !.phase = FeedWarmup]
    ELSE r

\* slip: the second reset test is skipped
advanceSkipsResetTest2(r, reason) ==
    IF ~IsWdtReset(reason) THEN r
    ELSE IF r.phase = ResetTest1 THEN [r EXCEPT !.phase = Disabled30s]
    ELSE IF r.phase = ResetTest2 THEN [r EXCEPT !.phase = Disabled30s]
    ELSE IF r.phase = StretchCoarse THEN CoarseHandoff(r)
    ELSE IF r.phase = StretchFine THEN FineHandoff(r)
    ELSE r

\* slip: the coarse failure is taken for the final one
advanceSkipsFine(r, reason) ==
    IF ~IsWdtReset(reason) THEN r
    ELSE IF r.phase = ResetTest1 THEN [r EXCEPT !.phase = ResetTest2]
    ELSE IF r.phase = ResetTest2 THEN [r EXCEPT !.phase = Disabled30s]
    ELSE IF r.phase = StretchCoarse THEN [CoarseHandoff(r) EXCEPT !.phase = Result]
    ELSE IF r.phase = StretchFine THEN FineHandoff(r)
    ELSE r

advancePhaseOnWdtReset(r, reason) ==
    IF ~IsWdtReset(reason) THEN r
    ELSE IF r.phase = ResetTest1 THEN [r EXCEPT !.phase = ResetTest2]
    ELSE IF r.phase = ResetTest2 THEN [r EXCEPT !.phase = Disabled30s]
    ELSE IF r.phase = StretchCoarse THEN CoarseHandoff(r)
    ELSE IF r.phase = StretchFine THEN FineHandoff(r)
    ELSE r

(* ---------------- the watchdog ----------------------------------------- *)
\* the countdown has run longer than the timeout given to esp_task_wdt_init
WdtExpired == wdtEnabled /\ now - wdtLastFeedMs > kWdtTimeoutMs

(* ---------------- wdtFeedIfDue ----------------------------------------- *)
FeedDue(intervalMs) == now - gLastFeedMs >= intervalMs

\* esp_task_wdt_reset succeeds only on a watchdog that watches this task
FeedOk(ok) == ok /\ wdtEnabled

\* slip: every due attempt is counted, failed or not
FeedCountAfterAnyAttempt(intervalMs, ok) ==
    IF FeedDue(intervalMs) THEN gFeedCount + 1 ELSE gFeedCount

FeedCountAfter(intervalMs, ok) ==
    IF FeedDue(intervalMs) /\ FeedOk(ok) THEN gFeedCount + 1 ELSE gFeedCount

LastFeedAfter(intervalMs) ==
    IF FeedDue(intervalMs) THEN now ELSE gLastFeedMs

WdtFeedAfter(intervalMs, ok) ==
    IF FeedDue(intervalMs) /\ FeedOk(ok) THEN now ELSE wdtLastFeedMs

\* a failed driver call is charged to the fault budget
FaultsAfter(happened) == IF happened THEN faults + 1 ELSE faults


(* ---------------- wdtEnable / wdtDisable ------------------------------- *)
\* slip: wdtEnable only prints its message
WdtEnableOnlyPrints(ok) == wdtEnabled

\* esp_task_wdt_init + esp_task_wdt_add: "already in that state" counts as done
WdtEnabledAfterEnable(ok) == wdtEnabled \/ ok

WdtFeedAfterEnable(ok, t) == IF ~wdtEnabled /\ ok THEN t ELSE wdtLastFeedMs

\* slip: wdtDisable only prints its message
WdtDisableOnlyPrints(ok) == wdtEnabled

\* esp_task_wdt_delete + esp_task_wdt_deinit: a failure leaves the watchdog on
WdtEnabledAfterDisable(ok) == wdtEnabled /\ ~ok

(* ---------------- the chip resets -------------------------------------- *)
BootsSoFar == IF Valid(gRtc) THEN gRtc.bootCount ELSE 0

\* ordinary RAM, the statics and the watchdog start over; RTC memory is kept
HardwareReset(reason) ==
    /\ pc' = "boot"
    /\ resetReason' = reason
    /\ now' = 0
    /\ gLastFeedMs' = 0
    /\ gFeedCount' = 0
    /\ intervalStartMs' = 0
    /\ done' = FALSE
    /\ windowStartMs' = 0
    /\ wdtEnabled' = FALSE
    /\ wdtLastFeedMs' = 0

\* the stretch interval loop() is probing, 0 outside the stretch phases
ProbeIntervalMs ==
    IF gRtc.phase = StretchCoarse THEN gRtc.coarseIntervalMs
    ELSE IF gRtc.phase = StretchFine THEN gRtc.fineIntervalMs
    ELSE 0

\* the task watchdog expires: ESP_RST_TASK_WDT
WdtReset ==
    /\ pc # "boot"
    /\ WdtExpired
    /\ BootsSoFar < MaxBoots
    /\ HardwareReset(TASK_WDT)
    /\ wdtResetAtMs' = ProbeIntervalMs
    /\ UNCHANGED << gRtc, faults, lastHeldMs, resultDisabledWdt, bootsRun >>

\* any other reset; RTC_NOINIT memory is kept
OtherReset ==
    /\ pc # "boot"
    /\ ~WdtExpired
    /\ faults < MaxFaults
    /\ BootsSoFar < MaxBoots
    /\ \E reason \in OtherReasons : HardwareReset(reason)
    /\ faults' = faults + 1
    /\ UNCHANGED << gRtc, hist >>

\* power was lost: RTC_NOINIT memory holds no defined value afterwards
PowerLoss ==
    /\ pc # "boot"
    /\ ~WdtExpired
    /\ faults < MaxFaults
    /\ HardwareReset(POWERON)
    /\ gRtc' \in RtcGarbage
    /\ faults' = faults + 1
    /\ bootsRun' = 0
    /\ UNCHANGED << lastHeldMs, wdtResetAtMs, resultDisabledWdt >>

(* ---------------- setup ------------------------------------------------ *)
Setup(enableOk) ==
    /\ pc = "boot"
    /\ ~enableOk => faults < MaxFaults
    /\ LET r1 == rtcInitIfNeeded(gRtc)
           r2 == [r1 EXCEPT !.bootCount = @ + 1]
           t  == now + kSetupDelayMs
       IN  /\ gRtc' = advancePhaseOnWdtReset(r2, resetReason)
           /\ now' = t
           /\ wdtEnabled' = WdtEnabledAfterEnable(enableOk)
           /\ wdtLastFeedMs' = WdtFeedAfterEnable(enableOk, t)
           /\ gFeedCount' = 0
           /\ gLastFeedMs' = t
    /\ pc' = "loop"
    /\ faults' = FaultsAfter(~enableOk)
    /\ lastHeldMs' = IF Valid(gRtc) THEN lastHeldMs ELSE 0
    /\ wdtResetAtMs' = IF Valid(gRtc) THEN wdtResetAtMs ELSE 0
    /\ resultDisabledWdt' = (Valid(gRtc) /\ resultDisabledWdt)
    /\ bootsRun' = IF Valid(gRtc) THEN bootsRun + 1 ELSE 1
    /\ UNCHANGED << intervalStartMs, done, windowStartMs, resetReason >>

(* ---------------- loop: FeedWarmup ------------------------------------- *)
\* an injected failure of a feed that is due on a working watchdog
FeedFault(intervalMs, ok) == FeedDue(intervalMs) /\ wdtEnabled /\ ~ok

FeedInput(intervalMs, ok) ==
    /\ ~ok => FeedFault(intervalMs, ok)
    /\ ~ok => faults < MaxFaults

\* slip: off by one in the exit test
WarmupExitLate(count) == count > kMinFeedCount

WarmupExit(count) == count >= kMinFeedCount

\* an iteration of a feeding phase changes something only when a feed is due
FeedPhasePending == FeedDue(kFeedIntervalMs) \/ gFeedCount >= kMinFeedCount

LoopFeedWarmup(ok) ==
    /\ pc = "loop"
    /\ gRtc.phase = FeedWarmup
    /\ ~WdtExpired
    /\ FeedPhasePending
    /\ FeedInput(kFeedIntervalMs, ok)
    /\ LET count == FeedCountAfter(kFeedIntervalMs, ok)
           exit  == WarmupExit(count)
       IN  /\ gRtc' = IF exit THEN [gRtc EXCEPT !.phase = ResetTest1] ELSE gRtc
           /\ gFeedCount' = IF exit THEN 0 ELSE count
           /\ gLastFeedMs' = IF exit THEN now ELSE LastFeedAfter(kFeedIntervalMs)
           /\ now' = IF exit THEN now + kPhaseDelayMs ELSE now
    /\ wdtLastFeedMs' = WdtFeedAfter(kFeedIntervalMs, ok)
    /\ faults' = FaultsAfter(~ok)
    /\ UNCHANGED << intervalStartMs, done, windowStartMs, wdtEnabled,
                    resetReason, pc, hist >>

(* ---------------- loop: ResetTest1 / ResetTest2 ------------------------ *)
\* hangUntilReset never returns and never feeds
LoopResetTest ==
    /\ pc = "loop"
    /\ gRtc.phase \in {ResetTest1, ResetTest2}
    /\ ~WdtExpired
    /\ pc' = "hang"
    /\ UNCHANGED << gRtc, ram, now, wdtEnabled, wdtLastFeedMs, resetReason,
                    faults, hist >>

(* ---------------- loop: Disabled30s ------------------------------------ *)
\* runDisableWindow up to its wait
LoopDisabled30s(disableOk) ==
    /\ pc = "loop"
    /\ gRtc.phase = Disabled30s
    /\ ~WdtExpired
    /\ ~disableOk => wdtEnabled /\ faults < MaxFaults
    /\ wdtEnabled' = WdtEnabledAfterDisable(disableOk)
    /\ windowStartMs' = now
    /\ pc' = "window"
    /\ faults' = FaultsAfter(~disableOk)
    /\ UNCHANGED << gRtc, gLastFeedMs, gFeedCount, intervalStartMs, done, now,
                    wdtLastFeedMs, resetReason, hist >>

WindowElapsed == now - windowStartMs >= kDisableWindowMs

\* runDisableWindow after its wait, and the rest of the Disabled30s case
DisableWindowEnd(enableOk) ==
    /\ pc = "window"
    /\ ~WdtExpired
    /\ WindowElapsed
    /\ ~enableOk => ~wdtEnabled /\ faults < MaxFaults
    /\ wdtEnabled' = WdtEnabledAfterEnable(enableOk)
    /\ wdtLastFeedMs' = WdtFeedAfterEnable(enableOk, now)
    /\ gRtc' = [gRtc EXCEPT !.phase = FeedAfterOn]
    /\ gFeedCount' = 0
    /\ gLastFeedMs' = now
    /\ pc' = "loop"
    /\ faults' = FaultsAfter(~enableOk)
    /\ UNCHANGED << intervalStartMs, done, windowStartMs, now, resetReason, hist >>

(* ---------------- loop: FeedAfterOn ------------------------------------ *)
\* slip: only the coarse search is initialised, fine and final are left as found
StretchSeedCoarseOnly(r) ==
    [r EXCEPT !.phase            = StretchCoarse,
              !.coarseIntervalMs = kStretchStartMs,
              !.coarseLastGoodMs = 0,
              !.coarseFailMs     = 0]

\* slip: the coarse search starts one step below the start interval
StretchSeedOneStepLow(r) ==
    [r EXCEPT !.phase            = StretchCoarse,
              !.coarseIntervalMs = kStretchStartMs - kCoarseStepMs,
              !.coarseLastGoodMs = 0,
              !.coarseFailMs     = 0,
              !.fineIntervalMs   = 0,
              !.fineLastGoodMs   = 0,
              !.fineFailMs       = 0,
              !.finalLastGoodMs  = 0,
              !.finalFailMs      = 0]

StretchSeed(r) ==
    [r EXCEPT !.phase            = StretchCoarse,
              !.coarseIntervalMs = kStretchStartMs,
              !.coarseLastGoodMs = 0,
              !.coarseFailMs     = 0,
              !.fineIntervalMs   = 0,
              !.fineLastGoodMs   = 0,
              !.fineFailMs       = 0,
              !.finalLastGoodMs  = 0,
              !.finalFailMs      = 0]

LoopFeedAfterOn(ok) ==
    /\ pc = "loop"
    /\ gRtc.phase = FeedAfterOn
    /\ ~WdtExpired
    /\ FeedPhasePending
    /\ FeedInput(kFeedIntervalMs, ok)
    /\ LET count == FeedCountAfter(kFeedIntervalMs, ok)
           exit  == count >= kMinFeedCount
       IN  /\ gRtc' = IF exit THEN StretchSeed(gRtc) ELSE gRtc
           /\ gFeedCount' = IF exit THEN 0 ELSE count
           /\ gLastFeedMs' = IF exit THEN now ELSE LastFeedAfter(kFeedIntervalMs)
           /\ now' = IF exit THEN now + kPhaseDelayMs ELSE now
           /\ lastHeldMs' = IF exit THEN 0 ELSE lastHeldMs
    /\ wdtLastFeedMs' = WdtFeedAfter(kFeedIntervalMs, ok)
    /\ faults' = FaultsAfter(~ok)
    /\ UNCHANGED << intervalStartMs, done, windowStartMs, wdtEnabled,
                    resetReason, pc, wdtResetAtMs, resultDisabledWdt, bootsRun >>


(* ---------------- stretchStepLogic ------------------------------------- *)
HoldStart == IF intervalStartMs = 0 THEN now ELSE intervalStartMs

HeldMs == now - HoldStart

HoldDone == HeldMs >= kStretchHoldMs

\* slip: the interval is never increased
StretchNextStuck(intervalMs, stepMs) == intervalMs

\* slip: the interval grows by two steps per hold
StretchNextTwoSteps(intervalMs, stepMs) ==
    IF HoldDone THEN intervalMs + 2 * stepMs ELSE intervalMs

\* slip: the interval grows at every feed instead of at the end of a hold
StretchNextEachFeed(intervalMs, stepMs) ==
    IF FeedDue(intervalMs) THEN intervalMs + stepMs ELSE intervalMs

StretchNext(intervalMs, stepMs) ==
    IF HoldDone THEN intervalMs + stepMs ELSE intervalMs

\* an iteration changes something when a feed is due, a hold starts or a hold ends
StretchPending(intervalMs) ==
    FeedDue(intervalMs) \/ intervalStartMs = 0 \/ HoldDone

\* the effect of stretchStepLogic on everything but the interval it is given
stretchStepLogic(intervalMs, ok) ==
    /\ FeedInput(intervalMs, ok)
    /\ gFeedCount' = FeedCountAfter(intervalMs, ok)
    /\ gLastFeedMs' = LastFeedAfter(intervalMs)
    /\ wdtLastFeedMs' = WdtFeedAfter(intervalMs, ok)
    /\ intervalStartMs' = IF HoldDone THEN 0 ELSE HoldStart
    /\ lastHeldMs' = IF HoldDone THEN intervalMs ELSE lastHeldMs
    /\ faults' = FaultsAfter(~ok)
    /\ UNCHANGED << done, windowStartMs, now, wdtEnabled, resetReason, pc,
                    wdtResetAtMs, resultDisabledWdt, bootsRun >>

(* ---------------- loop: StretchCoarse ---------------------------------- *)
LoopStretchCoarse(ok) ==
    /\ pc = "loop"
    /\ gRtc.phase = StretchCoarse
    /\ ~WdtExpired
    /\ StretchPending(gRtc.coarseIntervalMs)
    /\ stretchStepLogic(gRtc.coarseIntervalMs, ok)
    /\ gRtc' = [gRtc EXCEPT !.coarseIntervalMs = StretchNext(@, kCoarseStepMs)]

(* ---------------- loop: StretchFine ------------------------------------ *)
FineSeeded(r) ==
    IF r.fineIntervalMs = 0 THEN [r EXCEPT !.fineIntervalMs = r.coarseLastGoodMs]
    ELSE r

FinePending ==
    gRtc # FineSeeded(gRtc) \/ StretchPending(FineSeeded(gRtc).fineIntervalMs)

LoopStretchFine(ok) ==
    /\ pc = "loop"
    /\ gRtc.phase = StretchFine
    /\ ~WdtExpired
    /\ FinePending
    /\ stretchStepLogic(FineSeeded(gRtc).fineIntervalMs, ok)
    /\ gRtc' = [FineSeeded(gRtc) EXCEPT !.fineIntervalMs = StretchNext(@, kFineStepMs)]

(* ---------------- loop: Result ----------------------------------------- *)
LoopResult(disableOk) ==
    /\ pc = "loop"
    /\ gRtc.phase = Result
    /\ ~WdtExpired
    /\ now + kResultIdleMs <= MaxUptimeMs
    /\ ~disableOk => ~done /\ wdtEnabled /\ faults < MaxFaults
    /\ wdtEnabled' = IF done THEN wdtEnabled ELSE WdtEnabledAfterDisable(disableOk)
    /\ done' = TRUE
    /\ now' = now + kResultIdleMs
    /\ faults' = FaultsAfter(~disableOk)
    /\ resultDisabledWdt' = (resultDisabledWdt \/ (~done /\ disableOk))
    /\ UNCHANGED << gRtc, gLastFeedMs, gFeedCount, intervalStartMs,
                    windowStartMs, wdtLastFeedMs, resetReason, pc, lastHeldMs,
                    wdtResetAtMs, bootsRun >>

(* ---------------- loop: default ---------------------------------------- *)
ValidPhase(p) == p \in FeedWarmup .. Result

\* slip: the phase is repaired but the counters are left as they are
LoopDefaultKeepsCounters ==
    /\ pc = "loop"
    /\ ~ValidPhase(gRtc.phase)
    /\ ~WdtExpired
    /\ gRtc' = [gRtc EXCEPT !.phase = FeedWarmup]
    /\ UNCHANGED << ram, now, wdtEnabled, wdtLastFeedMs, resetReason, pc,
                    faults, hist >>

LoopDefault ==
    /\ pc = "loop"
    /\ ~ValidPhase(gRtc.phase)
    /\ ~WdtExpired
    /\ gRtc' = [gRtc EXCEPT !.phase = FeedWarmup]
    /\ gFeedCount' = 0
    /\ gLastFeedMs' = now
    /\ UNCHANGED << intervalStartMs, done, windowStartMs, now, wdtEnabled,
                    wdtLastFeedMs, resetReason, pc, faults, hist >>

(* ---------------- time ------------------------------------------------- *)
\* loop(), or the wait it is in, would change something at this instant
Pending ==
    CASE pc = "boot"   -> TRUE
      [] pc = "hang"   -> FALSE
      [] pc = "window" -> WindowElapsed
      [] OTHER ->
           CASE gRtc.phase \in {FeedWarmup, FeedAfterOn} -> FeedPhasePending
             [] gRtc.phase = StretchCoarse -> StretchPending(gRtc.coarseIntervalMs)
             [] gRtc.phase = StretchFine   -> FinePending
             [] OTHER -> TRUE

\* the instants at which something becomes due
Deadlines ==
    (IF wdtEnabled THEN {wdtLastFeedMs + kWdtTimeoutMs + 1} ELSE {})
    \cup (IF pc = "window" THEN {windowStartMs + kDisableWindowMs} ELSE {})
    \cup (IF pc = "loop" /\ gRtc.phase \in {FeedWarmup, FeedAfterOn}
          THEN {gLastFeedMs + kFeedIntervalMs} ELSE {})
    \cup (IF pc = "loop" /\ gRtc.phase = StretchCoarse
          THEN {gLastFeedMs + gRtc.coarseIntervalMs, intervalStartMs + kStretchHoldMs}
          ELSE {})
    \cup (IF pc = "loop" /\ gRtc.phase = StretchFine
          THEN {gLastFeedMs + gRtc.fineIntervalMs, intervalStartMs + kStretchHoldMs}
          ELSE {})

MinOf(S) == CHOOSE x \in S : \A y \in S : x <= y

\* millis() runs on to the next instant at which something is due
Tick ==
    /\ ~Pending
    /\ ~WdtExpired
    /\ Deadlines # {}
    /\ MinOf(Deadlines) > now
    /\ MinOf(Deadlines) <= MaxUptimeMs
    /\ now' = MinOf(Deadlines)
    /\ UNCHANGED << gRtc, ram, wdtEnabled, wdtLastFeedMs, resetReason, pc,
                    faults, hist >>

(* ---------------- specifications --------------------------------------- *)
\* power-on: RTC memory holds garbage, RAM is zero-initialised
Init ==
    /\ gRtc \in RtcGarbage
    /\ gLastFeedMs = 0
    /\ gFeedCount = 0
    /\ intervalStartMs = 0
    /\ done = FALSE
    /\ windowStartMs = 0
    /\ now = 0
    /\ wdtEnabled = FALSE
    /\ wdtLastFeedMs = 0
    /\ resetReason = POWERON
    /\ pc = "boot"
    /\ faults = 0
    /\ lastHeldMs = 0
    /\ wdtResetAtMs = 0
    /\ resultDisabledWdt = FALSE
    /\ bootsRun = 0

\* the program with driver failures and resets of every cause
Next ==
    \/ \E ok \in BOOLEAN : Setup(ok)
    \/ WdtReset
    \/ OtherReset
    \/ PowerLoss
    \/ Tick
    \/ \E ok \in BOOLEAN : LoopFeedWarmup(ok)
    \/ LoopResetTest
    \/ \E ok \in BOOLEAN : LoopDisabled30s(ok)
    \/ \E ok \in BOOLEAN : DisableWindowEnd(ok)
    \/ \E ok \in BOOLEAN : LoopFeedAfterOn(ok)
    \/ \E ok \in BOOLEAN : LoopStretchCoarse(ok)
    \/ \E ok \in BOOLEAN : LoopStretchFine(ok)
    \/ \E ok \in BOOLEAN : LoopResult(ok)

Spec == Init /\ [][Next]_vars

\* the program when every driver call succeeds and only the watchdog resets it
NextIdeal ==
    \/ Setup(TRUE)
    \/ WdtReset
    \/ Tick
    \/ LoopFeedWarmup(TRUE)
    \/ LoopResetTest
    \/ LoopDisabled30s(TRUE)
    \/ DisableWindowEnd(TRUE)
    \/ LoopFeedAfterOn(TRUE)
    \/ LoopStretchCoarse(TRUE)
    \/ LoopStretchFine(TRUE)
    \/ LoopResult(TRUE)

SpecIdeal == Init /\ [][NextIdeal]_vars

\* the program when every driver call succeeds, with resets of every cause
NextDriverOk ==
    \/ NextIdeal
    \/ OtherReset
    \/ PowerLoss

SpecDriverOk == Init /\ [][NextDriverOk]_vars

(* ---------------- one boot from any stored record ---------------------- *)
\* intervals around the two steps, the start value and the largest modelled word
ProbeValues ==
    {0, kFineStepMs, kFineStepMs + 1, kCoarseStepMs, kCoarseStepMs + 1,
     kStretchStartMs, kWdtTimeoutMs + kCoarseStepMs, 2 ^ 30}

\* every phase word: the eight enumerators and two that are none of them
PhaseWords == (FeedWarmup .. Result) \cup {Result + 1, 2 ^ 30}

\* records RTC memory can hold at a reset, whoever wrote them
AnyRecords ==
    { [magic            |-> m,
       bootCount        |-> b,
       phase            |-> p,
       coarseIntervalMs |-> ci,
       coarseLastGoodMs |-> old,
       coarseFailMs     |-> old + 1,
       fineIntervalMs   |-> fi,
       fineLastGoodMs   |-> old + 2,
       fineFailMs       |-> old + 3,
       finalLastGoodMs  |-> old + 4,
       finalFailMs      |-> old + 5] :
        m \in {kRtcMagic, "0x00000000"}, b \in {0, MaxBoots}, p \in PhaseWords,
        ci \in ProbeValues, fi \in ProbeValues, old \in {0, kStretchStartMs} }

InitAnyRecord ==
    /\ gRtc \in AnyRecords
    /\ resetReason \in ResetReasons
    /\ gLastFeedMs = 0
    /\ gFeedCount = 0
    /\ intervalStartMs = 0
    /\ done = FALSE
    /\ windowStartMs = 0
    /\ now = 0
    /\ wdtEnabled = FALSE
    /\ wdtLastFeedMs = 0
    /\ pc = "boot"
    /\ faults = 0
    /\ lastHeldMs = 0
    /\ wdtResetAtMs = 0
    /\ resultDisabledWdt = FALSE
    /\ bootsRun = 0

\* setup(), and the iteration of loop() that repairs an unknown phase
NextAnyRecord ==
    \/ \E ok \in BOOLEAN : Setup(ok)
    \/ LoopDefault

SpecAnyRecord == InitAnyRecord /\ [][NextAnyRecord]_vars

(* ---------------- a phase word that is no enumerator -------------------- *)
\* the phase word in RTC memory stops being an enumerator while the program
\* runs: loop() reads gRtc.phase afresh at the start of every iteration
CorruptPhase ==
    /\ pc # "boot"
    /\ faults < MaxFaults
    /\ ValidPhase(gRtc.phase)
    /\ \E w \in PhaseWords \ (FeedWarmup .. Result) :
          gRtc' = [gRtc EXCEPT !.phase = w]
    /\ faults' = faults + 1
    /\ UNCHANGED << ram, now, wdtEnabled, wdtLastFeedMs, resetReason, pc, hist >>

\* the program with working driver calls and a phase word that may go bad
NextCorruptPhase ==
    \/ NextIdeal
    \/ CorruptPhase
    \/ LoopDefault

SpecCorruptPhase == Init /\ [][NextCorruptPhase]_vars


(* ======================================================================= *)
(* The claims                                                              *)
(* ======================================================================= *)
MaxOf(a, b) == IF a >= b THEN a ELSE b

InResult == Valid(gRtc) /\ gRtc.phase = Result

\* a step that is setup() run after a reset
BootStep == pc = "boot" /\ pc' = "loop"

\* C1: with an ideal watchdog, no driver failure and no other reset, in
\* Result finalFailMs is the interval in force at the last watchdog reset,
\* finalLastGoodMs is finalFailMs - 100 and is the interval last held for the
\* full 8000 ms, and finalLastGoodMs <= 5000 < finalFailMs.
C1_ResultBracketsTimeout ==
    InResult =>
        /\ gRtc.finalFailMs = wdtResetAtMs
        /\ gRtc.finalLastGoodMs = gRtc.finalFailMs - kFineStepMs
        /\ gRtc.finalLastGoodMs = lastHeldMs
        /\ gRtc.finalLastGoodMs <= kWdtTimeoutMs
        /\ kWdtTimeoutMs < gRtc.finalFailMs

C1_Witness ==
    InResult /\ pc = "loop" /\ done /\ gRtc.finalFailMs > kWdtTimeoutMs

\* C2: a boot with cause TASK_WDT in StretchCoarse with coarseIntervalMs = X
\* leaves coarseFailMs = X, coarseLastGoodMs = max(0, X - 500),
\* fineIntervalMs = coarseLastGoodMs, fineLastGoodMs = fineFailMs = 0 and
\* phase = StretchFine; coarseIntervalMs and the final pair are unchanged.
C2_CoarseToFineHandoff ==
    [][ (BootStep /\ Valid(gRtc) /\ resetReason = TASK_WDT
            /\ gRtc.phase = StretchCoarse) =>
          /\ gRtc'.coarseFailMs = gRtc.coarseIntervalMs
          /\ gRtc'.coarseLastGoodMs = MaxOf(0, gRtc.coarseIntervalMs - kCoarseStepMs)
          /\ gRtc'.fineIntervalMs = gRtc'.coarseLastGoodMs
          /\ gRtc'.fineLastGoodMs = 0
          /\ gRtc'.fineFailMs = 0
          /\ gRtc'.phase = StretchFine
          /\ gRtc'.coarseIntervalMs = gRtc.coarseIntervalMs
          /\ gRtc'.finalLastGoodMs = gRtc.finalLastGoodMs
          /\ gRtc'.finalFailMs = gRtc.finalFailMs ]_vars

C2_Witness ==
    /\ pc = "loop" /\ resetReason = TASK_WDT /\ gRtc.phase = StretchFine
    /\ gRtc.coarseFailMs = kCoarseStepMs + 1
    /\ gRtc.coarseLastGoodMs = 1
    /\ gRtc.fineIntervalMs = 1
    /\ gRtc.finalFailMs # 0

\* C3: a boot with cause TASK_WDT in StretchFine with fineIntervalMs = Y
\* leaves fineFailMs = Y, fineLastGoodMs = max(0, Y - 100), finalLastGoodMs =
\* fineLastGoodMs, finalFailMs = fineFailMs and phase = Result; the coarse
\* triple is unchanged.
C3_FineToResultHandoff ==
    [][ (BootStep /\ Valid(gRtc) /\ resetReason = TASK_WDT
            /\ gRtc.phase = StretchFine) =>
          /\ gRtc'.fineFailMs = gRtc.fineIntervalMs
          /\ gRtc'.fineLastGoodMs = MaxOf(0, gRtc.fineIntervalMs - kFineStepMs)
          /\ gRtc'.finalLastGoodMs = gRtc'.fineLastGoodMs
          /\ gRtc'.finalFailMs = gRtc'.fineFailMs
          /\ gRtc'.phase = Result
          /\ gRtc'.coarseIntervalMs = gRtc.coarseIntervalMs
          /\ gRtc'.coarseLastGoodMs = gRtc.coarseLastGoodMs
          /\ gRtc'.coarseFailMs = gRtc.coarseFailMs ]_vars

C3_Witness ==
    /\ pc = "loop" /\ resetReason = TASK_WDT /\ gRtc.phase = Result
    /\ gRtc.fineFailMs = kFineStepMs + 1
    /\ gRtc.finalLastGoodMs = 1
    /\ gRtc.finalFailMs = kFineStepMs + 1
    /\ gRtc.coarseFailMs # 0

\* C4: for every phase and every reset cause other than TASK_WDT, a boot with
\* a valid marker leaves phase and the eight search fields unchanged.
C4_AdvanceOnlyOnTaskWdt ==
    [][ (BootStep /\ Valid(gRtc) /\ resetReason \in OtherReasons) =>
          /\ gRtc'.phase = gRtc.phase
          /\ SameSearch(gRtc, gRtc') ]_vars

C4_Witness ==
    /\ pc = "loop" /\ resetReason = "INT_WDT" /\ gRtc.phase = StretchCoarse
    /\ gRtc.bootCount = 1
    /\ gRtc.coarseIntervalMs = kWdtTimeoutMs + kCoarseStepMs
    /\ gRtc.coarseFailMs = 1

\* C5: a boot with cause TASK_WDT whose stored phase is FeedWarmup,
\* Disabled30s, FeedAfterOn or Result changes neither phase nor a search
\* field, and loop() starts on that phase with its counters and statics
\* fresh: feed counter 0, last feed = now, no hold begun, Result not printed.
UnexpectedPhases == {FeedWarmup, Disabled30s, FeedAfterOn, Result}

C5_WdtResetInUnexpectedPhase ==
    [][ (BootStep /\ Valid(gRtc) /\ resetReason = TASK_WDT
            /\ gRtc.phase \in UnexpectedPhases) =>
          /\ gRtc'.phase = gRtc.phase
          /\ SameSearch(gRtc, gRtc')
          /\ gFeedCount' = 0
          /\ gLastFeedMs' = now'
          /\ intervalStartMs' = 0
          /\ done' = FALSE ]_vars

C5_Witness ==
    /\ pc = "loop" /\ resetReason = TASK_WDT /\ gRtc.phase = FeedAfterOn
    /\ gRtc.bootCount = 1 /\ gFeedCount = 0
    /\ gRtc.coarseIntervalMs = kStretchStartMs
    /\ gRtc.coarseFailMs = 1

\* C6: from a fresh record, with every driver call succeeding, the watchdog
\* resetting the chip whenever it is left unfed past its timeout and the
\* program always running on, the phase eventually becomes Result.
SpecIdealFair == SpecIdeal /\ WF_vars(NextIdeal)

C6_ReachesResult == <>InResult

C6_Witness == InResult /\ pc = "loop" /\ gRtc.bootCount = 5 /\ ~wdtEnabled

\* C7: with only watchdog resets, boot 1 runs FeedWarmup and then ResetTest1,
\* boot 2 comes up in ResetTest2 and boot 3 in Disabled30s, each ResetTest
\* advancement changing nothing of the record but phase (beside the boot
\* count), and a hang neither feeds nor changes the record.
C7_BootSequence ==
    [][ /\ (BootStep /\ gRtc'.bootCount = 1) => gRtc'.phase = FeedWarmup
        /\ (Valid(gRtc') /\ gRtc'.bootCount = 1) =>
              gRtc'.phase \in {FeedWarmup, ResetTest1}
        /\ (BootStep /\ gRtc'.bootCount = 2) =>
              /\ gRtc.phase = ResetTest1
              /\ gRtc' = [gRtc EXCEPT !.phase = ResetTest2, !.bootCount = 2]
        /\ (BootStep /\ gRtc'.bootCount = 3) =>
              /\ gRtc.phase = ResetTest2
              /\ gRtc' = [gRtc EXCEPT !.phase = Disabled30s, !.bootCount = 3]
        /\ (pc = "loop" /\ gRtc.phase \in {ResetTest1, ResetTest2}) =>
              pc' \in {"hang", "boot"}
        /\ pc = "hang" =>
              /\ gRtc' = gRtc
              /\ pc' = "hang" =>
                    /\ wdtLastFeedMs' = wdtLastFeedMs
                    /\ gFeedCount' = gFeedCount ]_vars

C7_Witness ==
    /\ pc = "loop" /\ Valid(gRtc) /\ gRtc.bootCount = 3
    /\ gRtc.phase = Disabled30s /\ resetReason = TASK_WDT

\* C8 as amended: once phase is Result, every later step that keeps the
\* marker valid keeps phase = Result and the eight search fields; and once
\* the Result case has run in a boot and the watchdog is off, it stays off
\* and unfed until the chip is reset.
C8_ResultTerminal ==
    [][ /\ (InResult /\ Valid(gRtc')) =>
              /\ gRtc'.phase = Result
              /\ SameSearch(gRtc, gRtc')
        /\ (InResult /\ done /\ ~wdtEnabled) =>
              /\ ~wdtEnabled'
              /\ wdtLastFeedMs' = wdtLastFeedMs \/ pc' = "boot"
              /\ gFeedCount' = gFeedCount \/ pc' = "boot" ]_vars

C8_Witness ==
    /\ InResult /\ pc = "loop" /\ done /\ ~wdtEnabled
    /\ gRtc.bootCount = 6 /\ resetReason = "EXT" /\ resultDisabledWdt

\* C8 as stated: ... and once the Result case has switched the watchdog off
\* it is never enabled again, in this boot or a later one.
C8_AsStated ==
    [][ /\ (InResult /\ Valid(gRtc')) =>
              /\ gRtc'.phase = Result
              /\ SameSearch(gRtc, gRtc')
        /\ (InResult /\ resultDisabledWdt /\ Valid(gRtc')) => ~wdtEnabled' ]_vars

\* C9: with an ideal watchdog and no other reset, in Result
\* coarseLastGoodMs <= finalLastGoodMs, finalFailMs <= coarseFailMs,
\* finalFailMs - finalLastGoodMs = 100 and coarseFailMs - coarseLastGoodMs = 500.
C9_FineNarrowsCoarse ==
    InResult =>
        /\ gRtc.coarseLastGoodMs <= gRtc.finalLastGoodMs
        /\ gRtc.finalFailMs <= gRtc.coarseFailMs
        /\ gRtc.finalFailMs - gRtc.finalLastGoodMs = kFineStepMs
        /\ gRtc.coarseFailMs - gRtc.coarseLastGoodMs = kCoarseStepMs

C9_Witness ==
    /\ InResult /\ pc = "loop" /\ ~done /\ resetReason = TASK_WDT
    /\ gRtc.coarseFailMs > gRtc.finalFailMs
    /\ gRtc.finalLastGoodMs >= kStretchStartMs

\* C10: FeedWarmup is left only for ResetTest1, only in the iteration whose
\* successful feed takes the feed counter from 5 to 6, in which the counter
\* is set back to 0; until then the phase stays FeedWarmup however much time
\* passes, and the counter never shows 6 in FeedWarmup.
C10_WarmupExitThreshold ==
    [][ (pc = "loop" /\ gRtc.phase = FeedWarmup /\ pc' = "loop") =>
          /\ gFeedCount < kMinFeedCount
          /\ IF gFeedCount = kMinFeedCount - 1 /\ wdtLastFeedMs' # wdtLastFeedMs
             THEN /\ gRtc'.phase = ResetTest1
                  /\ gFeedCount' = 0
                  /\ wdtLastFeedMs' = now
             ELSE /\ gRtc'.phase = FeedWarmup
                  /\ gFeedCount' \in {gFeedCount, gFeedCount + 1}
                  /\ gFeedCount' < kMinFeedCount ]_vars

C10_Witness ==
    /\ pc = "loop" /\ Valid(gRtc) /\ gRtc.phase = ResetTest1 /\ gFeedCount = 0
    /\ gRtc.bootCount = 1
    /\ now > kSetupDelayMs + kMinFeedCount * kFeedIntervalMs + kPhaseDelayMs

\* C11: in StretchCoarse, over the loop iterations of one boot, the hold never
\* lasts longer than 8000 ms, coarseIntervalMs is unchanged while the hold has
\* lasted less than 8000 ms and grows by exactly 500 when it has lasted
\* 8000 ms, after which the held time is 0 again; it never decreases.  The
\* same holds for fineIntervalMs with step 100 in StretchFine.
LoopStep == pc = "loop" /\ pc' = "loop"

C11_StretchGrowth ==
    [][ /\ (LoopStep /\ Valid(gRtc) /\ gRtc.phase = StretchCoarse) =>
              /\ HeldMs <= kStretchHoldMs
              /\ gRtc'.phase = StretchCoarse
              /\ gRtc'.coarseIntervalMs >= gRtc.coarseIntervalMs
              /\ HeldMs < kStretchHoldMs =>
                    gRtc'.coarseIntervalMs = gRtc.coarseIntervalMs
              /\ HeldMs = kStretchHoldMs =>
                    /\ gRtc'.coarseIntervalMs = gRtc.coarseIntervalMs + kCoarseStepMs
                    /\ HeldMs' = 0
        /\ (LoopStep /\ Valid(gRtc) /\ gRtc.phase = StretchFine) =>
              /\ HeldMs <= kStretchHoldMs
              /\ gRtc'.phase = StretchFine
              /\ gRtc'.fineIntervalMs >= gRtc.fineIntervalMs
              /\ HeldMs < kStretchHoldMs =>
                    gRtc'.fineIntervalMs = gRtc.fineIntervalMs
              /\ HeldMs = kStretchHoldMs =>
                    /\ gRtc'.fineIntervalMs = gRtc.fineIntervalMs + kFineStepMs
                    /\ HeldMs' = 0 ]_vars

C11_Witness ==
    /\ pc = "loop" /\ Valid(gRtc) /\ gRtc.phase = StretchCoarse
    /\ gRtc.coarseIntervalMs = kStretchStartMs + 2 * kCoarseStepMs
    /\ lastHeldMs = kStretchStartMs + kCoarseStepMs
    /\ intervalStartMs = now

\* C12: in FeedAfterOn the iteration whose feed is the sixth since the counter
\* was last set to 0 (on entering the phase or at boot) makes phase
\* StretchCoarse with coarseIntervalMs = 1000 and the seven other search
\* fields 0, whatever they held, and sets the counter back to 0; no other
\* iteration in FeedAfterOn changes a search field or enters StretchCoarse.
C12_FeedAfterOnReseeds ==
    [][ (LoopStep /\ Valid(gRtc) /\ gRtc.phase = FeedAfterOn) =>
          /\ gFeedCount < kMinFeedCount
          /\ IF gFeedCount = kMinFeedCount - 1 /\ wdtLastFeedMs' # wdtLastFeedMs
             THEN /\ gRtc'.phase = StretchCoarse
                  /\ gRtc'.coarseIntervalMs = kStretchStartMs
                  /\ \A f \in SearchFields \ {"coarseIntervalMs"} : gRtc'[f] = 0
                  /\ gRtc'.bootCount = gRtc.bootCount
                  /\ gFeedCount' = 0
             ELSE /\ gRtc'.phase # StretchCoarse
                  /\ SameSearch(gRtc, gRtc')
                  /\ gFeedCount' < kMinFeedCount ]_vars

\* StretchCoarse entered in boot 6 after a single bad phase word: the word
\* went bad in a stretch phase of boot 3 or 4, so the search fields were in
\* use when FeedAfterOn was reached again
C12_Witness ==
    /\ pc = "loop" /\ Valid(gRtc) /\ gRtc.phase = StretchCoarse
    /\ gRtc.bootCount = 6 /\ faults = 1
    /\ gRtc.coarseIntervalMs = kStretchStartMs
    /\ \A f \in SearchFields \ {"coarseIntervalMs"} : gRtc[f] = 0
    /\ gFeedCount = 0 /\ intervalStartMs = 0

\* C13: rtcInitIfNeeded returns a record with a valid marker as it is, so a
\* boot that finds one (and performs no advancement) changes nothing but the
\* boot count; and for every record, applying rtcInitIfNeeded twice gives
\* what applying it once gives.
C13_InitIdempotent ==
    [][ /\ Valid(gRtc) => rtcInitIfNeeded(gRtc) = gRtc
        /\ rtcInitIfNeeded(rtcInitIfNeeded(gRtc)) = rtcInitIfNeeded(gRtc)
        /\ Valid(rtcInitIfNeeded(gRtc))
        /\ (BootStep /\ Valid(gRtc) /\ ~IsWdtReset(resetReason)) =>
              gRtc' = [gRtc EXCEPT !.bootCount = gRtc.bootCount + 1] ]_vars

C13_Witness ==
    /\ pc = "loop" /\ resetReason = "BROWNOUT" /\ gRtc.phase = StretchFine
    /\ gRtc.bootCount = MaxBoots + 1
    /\ gRtc.coarseIntervalMs = 2 ^ 30
    /\ gRtc.fineIntervalMs = kFineStepMs + 1
    /\ gRtc.finalFailMs = kStretchStartMs + 5

\* C14: while RTC memory holds a valid record, bootCount is the number of
\* times setup() has run since the record was created: the boot that finds
\* no valid record leaves bootCount = 1, every later boot adds exactly 1
\* whatever its reset cause, and no other step writes it.
C14_BootCounter ==
    [][ /\ Valid(gRtc) => gRtc.bootCount = bootsRun
        /\ Valid(gRtc') => gRtc'.bootCount = bootsRun'
        /\ BootStep =>
              /\ Valid(gRtc')
              /\ gRtc'.bootCount = (IF Valid(gRtc) THEN gRtc.bootCount ELSE 0) + 1
        /\ (~BootStep /\ Valid(gRtc')) => gRtc'.bootCount = gRtc.bootCount ]_vars

C14_Witness ==
    /\ InResult /\ pc = "loop" /\ ~done /\ resetReason = "SW"
    /\ gRtc.bootCount = 6 /\ bootsRun = 6

\* C15: with a valid marker and a phase word that is no enumerator, an
\* iteration of loop() sets phase to FeedWarmup, the feed counter to 0 and
\* the last-feed time to now and changes no search field (nor the boot
\* count, nor the watchdog); a boot with cause TASK_WDT on such a word leaves
\* the word and the search fields as they are.
C15_CorruptPhaseRecovery ==
    [][ /\ (LoopStep /\ Valid(gRtc) /\ ~ValidPhase(gRtc.phase)) =>
              /\ gRtc' = [gRtc EXCEPT !.phase = FeedWarmup]
              /\ gFeedCount' = 0
              /\ gLastFeedMs' = now
              /\ now' = now
              /\ wdtEnabled' = wdtEnabled
              /\ wdtLastFeedMs' = wdtLastFeedMs
        /\ (BootStep /\ Valid(gRtc) /\ resetReason = TASK_WDT
               /\ ~ValidPhase(gRtc.phase)) =>
              /\ gRtc'.phase = gRtc.phase
              /\ SameSearch(gRtc, gRtc') ]_vars

\* FeedWarmup in a later boot, with a stretch interval in use and a feed
\* count and feed time that the repair had to reset
C15_Witness ==
    /\ pc = "loop" /\ Valid(gRtc) /\ gRtc.phase = FeedWarmup
    /\ gRtc.bootCount = 3 /\ faults = 1
    /\ gRtc.coarseIntervalMs = kStretchStartMs + kCoarseStepMs
    /\ gFeedCount = 0 /\ gLastFeedMs = now
    /\ wdtLastFeedMs < now /\ intervalStartMs # 0

\* C16: the Disabled30s iteration switches the watchdog off (when the driver
\* obeys) before its wait starts and changes nothing of the record yet; while
\* it waits with the watchdog off, the watchdog stays off, nothing is fed or
\* counted, the record is unchanged and no reset has cause TASK_WDT; the wait
\* ends only once 30000 ms have passed, and the same step switches the
\* watchdog on (when the driver obeys), sets phase FeedAfterOn whether or not
\* it did, the feed counter to 0 and the last-feed time to now.
C16_DisableWindow ==
    [][ /\ (pc = "loop" /\ Valid(gRtc) /\ gRtc.phase = Disabled30s) =>
              /\ pc' \in {"window", "boot"}
              /\ pc' = "window" =>
                    /\ faults' = faults => ~wdtEnabled'
                    /\ windowStartMs' = now
                    /\ gRtc' = gRtc
        /\ (pc = "window" /\ ~wdtEnabled) =>
              /\ pc' = "boot" => resetReason' # TASK_WDT
              /\ pc' = "window" =>
                    /\ ~wdtEnabled'
                    /\ wdtLastFeedMs' = wdtLastFeedMs
                    /\ gFeedCount' = gFeedCount
                    /\ gRtc' = gRtc
        /\ (pc = "window" /\ pc' = "loop") =>
              /\ ~wdtEnabled
              /\ now - windowStartMs >= kDisableWindowMs
              /\ faults' = faults => (wdtEnabled' /\ wdtLastFeedMs' = now)
              /\ gRtc' = [gRtc EXCEPT !.phase = FeedAfterOn]
              /\ gFeedCount' = 0
              /\ gLastFeedMs' = now ]_vars

C16_Witness ==
    /\ pc = "loop" /\ Valid(gRtc) /\ gRtc.phase = FeedAfterOn
    /\ windowStartMs = kSetupDelayMs
    /\ now = windowStartMs + kDisableWindowMs
    /\ wdtEnabled /\ wdtLastFeedMs = now
    /\ gFeedCount = 0 /\ gLastFeedMs = now /\ faults = 0

\* C17: an iteration of a feeding phase in which the feed is due and the
\* driver refuses it (an error injected, or the watchdog not initialised)
\* leaves the feed counter and the watchdog's countdown as they are, sets the
\* last-feed time to now, keeps the phase and every field of the record
\* beside the interval the stretch logic is growing, and loop() goes on; a
\* boot whose wdtEnable fails still validates and counts the record, resets
\* the counters and enters loop().
FeedingPhases == {FeedWarmup, FeedAfterOn, StretchCoarse, StretchFine}

FeedIntervalMs ==
    IF gRtc.phase \in {StretchCoarse, StretchFine} THEN ProbeIntervalMs
    ELSE kFeedIntervalMs

C17_FeedFailureNotFatal ==
    [][ /\ (LoopStep /\ Valid(gRtc) /\ gRtc.phase \in FeedingPhases
               /\ FeedDue(FeedIntervalMs)
               /\ (faults' = faults + 1 \/ ~wdtEnabled)) =>
              /\ gFeedCount' = gFeedCount
              /\ gLastFeedMs' = now
              /\ now' = now
              /\ wdtLastFeedMs' = wdtLastFeedMs
              /\ gRtc'.phase = gRtc.phase
              /\ \A f \in RtcFields \ {"coarseIntervalMs", "fineIntervalMs"} :
                    gRtc'[f] = gRtc[f]
              /\ gRtc.phase \in {FeedWarmup, FeedAfterOn} => gRtc' = gRtc
        /\ (pc = "boot" /\ pc' # "boot" /\ faults' = faults + 1) =>
              /\ pc' = "loop"
              /\ ~wdtEnabled'
              /\ Valid(gRtc')
              /\ gRtc'.bootCount = bootsRun'
              /\ gFeedCount' = 0
              /\ gLastFeedMs' = now' ]_vars

\* the fourth feed of FeedAfterOn was refused a moment ago
C17_Witness ==
    /\ pc = "loop" /\ Valid(gRtc) /\ gRtc.phase = FeedAfterOn
    /\ wdtEnabled /\ faults = 1
    /\ gFeedCount = 3
    /\ gLastFeedMs = now
    /\ wdtLastFeedMs = now - kFeedIntervalMs

\* C18 as amended: with driver calls succeeding, the watchdog is on in every
\* state in which loop() is about to run an iteration or hangs in a reset
\* test, except in Result once its first iteration of the boot has run; it
\* is off during the Disabled30s wait and in Result from that iteration on.
ResultIdle == gRtc.phase = Result /\ done

ResetExitPhases == {ResetTest1, ResetTest2, StretchCoarse, StretchFine}

C19_PhasesInOrder ==
    [][ (Valid(gRtc) /\ Valid(gRtc') /\ ValidPhase(gRtc.phase)) =>
          /\ gRtc'.phase \in {gRtc.phase, gRtc.phase + 1}
          /\ ValidPhase(gRtc'.phase)
          /\ (gRtc'.phase # gRtc.phase /\ gRtc.phase \in ResetExitPhases) =>
                (BootStep /\ resetReason = TASK_WDT) ]_vars

C19_Witness ==
    /\ InResult /\ pc = "loop" /\ ~done /\ resetReason = TASK_WDT
    /\ gRtc.bootCount = 6 /\ faults = 2

\* C20: from a fresh record, with a valid marker, phase = StretchCoarse
\* implies coarseIntervalMs >= 1000, and phase = StretchFine implies
\* coarseLastGoodMs >= 500 and fineIntervalMs >= coarseLastGoodMs > 0; so
\* the seeding of fineIntervalMs in the StretchFine case changes nothing and
\* both handoffs subtract their step from a larger interval.
C20_IntervalsNeverZero ==
    Valid(gRtc) =>
        /\ gRtc.phase = StretchCoarse =>
              /\ gRtc.coarseIntervalMs >= kStretchStartMs
              /\ gRtc.coarseIntervalMs > kCoarseStepMs
        /\ gRtc.phase = StretchFine =>
              /\ gRtc.coarseLastGoodMs >= kCoarseStepMs
              /\ gRtc.coarseLastGoodMs > 0
              /\ gRtc.fineIntervalMs >= gRtc.coarseLastGoodMs
              /\ gRtc.fineIntervalMs > kFineStepMs
              /\ FineSeeded(gRtc) = gRtc

\* the fine search under way after a coarse search that a refused feed ended
\* early
C20_Witness ==
    /\ pc = "loop" /\ Valid(gRtc) /\ gRtc.phase = StretchFine
    /\ gRtc.coarseFailMs < kWdtTimeoutMs
    /\ gRtc.fineIntervalMs > gRtc.coarseLastGoodMs
    /\ faults = 1

====
